---- MODULE Spec2Model ----
(***************************************************************************)
(* Model of excuse-gen-app/src/app.py: the POST /api/generate-excuse       *)
(* handler (generate_excuse), the inference client and response            *)
(* normaliser (call_databricks_llm), and the process-wide configuration.   *)
(*                                                                         *)
(* Representation of Python data.                                          *)
(*  - A Python str is a sequence of fragments.  Strings that the program   *)
(*    scans (reply text, message content, request fields) are sequences of *)
(*    one-character fragments; the literal pieces of an f-string of the    *)
(*    source are kept as one fragment each.                                *)
(*  - A decoded JSON value is a record [t |-> type name, v |-> payload].   *)
(*    A dict is an insertion-ordered sequence of [k, v] pairs with unique  *)
(*    keys, a list is a sequence of values.                                *)
(*  - The outcome of a Python expression that may raise is a record        *)
(*    [ok |-> TRUE, val |-> ...] or [ok |-> FALSE, exc |-> [cls, msg]].    *)
(***************************************************************************)
EXTENDS Integers, Sequences, FiniteSets, TLC

\* ------------------------------------------------------------------------
\* Characters and Python values
\* ------------------------------------------------------------------------

DQ == "\""
SQ == "'"
BS == "\\"
NL == "\n"
SP == " "

\* str.strip() and the JSON scanner's whitespace that occur in the modelled texts
Whitespace == {SP, NL, "\t", "\r"}

DigitChars == <<"0", "1", "2", "3", "4", "5", "6", "7", "8", "9">>

DigitSet == {DigitChars[i] : i \in 1..10}

PyNone == [t |-> "NoneType", v |-> <<>>]

PyStr(s) == [t |-> "str", v |-> s]

PyInt(digits) == [t |-> "int", v |-> digits]

PyBool(b) == [t |-> "bool", v |-> IF b THEN <<"True">> ELSE <<"False">>]

PyList(items) == [t |-> "list", v |-> items]

PyDict(pairs) == [t |-> "dict", v |-> pairs]

Pair(key, val) == [k |-> key, v |-> val]

Ok(x) == [ok |-> TRUE, val |-> x]

Raise(cls, msg) == [ok |-> FALSE, exc |-> [cls |-> cls, msg |-> msg]]

\* the fixed strings of the source, as character sequences where the program
\* compares them with scanned data
KeySubject == <<"s", "u", "b", "j", "e", "c", "t">>
KeyBody == <<"b", "o", "d", "y">>
KeyChoices == <<"c", "h", "o", "i", "c", "e", "s">>
KeyPredictions == <<"p", "r", "e", "d", "i", "c", "t", "i", "o", "n", "s">>
KeyMessage == <<"m", "e", "s", "s", "a", "g", "e">>
KeyContent == <<"c", "o", "n", "t", "e", "n", "t">>
KeyType == <<"t", "y", "p", "e">>
KeyText == <<"t", "e", "x", "t">>

\* ------------------------------------------------------------------------
\* dict and sequence primitives
\* ------------------------------------------------------------------------

HasKey(pairs, key) == \E i \in 1..Len(pairs) : pairs[i].k = key

Lookup(pairs, key) == pairs[CHOOSE i \in 1..Len(pairs) : pairs[i].k = key].v

\* d[key] = val: a repeated key keeps its place and takes the last value
DictSet(pairs, key, val) ==
    IF HasKey(pairs, key)
    THEN [i \in 1..Len(pairs) |-> IF pairs[i].k = key THEN Pair(key, val) ELSE pairs[i]]
    ELSE Append(pairs, Pair(key, val))

\* sub in s, for str operands
IsSubstring(sub, s) ==
    \E i \in 1..(Len(s) - Len(sub) + 1) : SubSeq(s, i, i + Len(sub) - 1) = sub

RECURSIVE Join(_, _)
\* sep.join(parts)
Join(parts, sep) ==
    IF Len(parts) = 0 THEN <<>>
    ELSE IF Len(parts) = 1 THEN parts[1]
    ELSE parts[1] \o sep \o Join(Tail(parts), sep)

\* ------------------------------------------------------------------------
\* json.loads / response.json(): the JSON scanner
\* (objects, arrays, strings with the escapes \" \\ \/ \n \t, non-negative
\* integers, null, true, false; strict mode rejects raw control characters
\* inside a string)
\* ------------------------------------------------------------------------

Scanned(val, pos) == [ok |-> TRUE, val |-> val, pos |-> pos]

ScanError == [ok |-> FALSE, val |-> PyNone, pos |-> 0]

RECURSIVE SkipWs(_, _)
SkipWs(s, i) ==
    IF i <= Len(s) /\ s[i] \in Whitespace THEN SkipWs(s, i + 1) ELSE i

StartsWithAt(s, i, lit) ==
    /\ i + Len(lit) - 1 <= Len(s)
    /\ SubSeq(s, i, i + Len(lit) - 1) = lit

Unescape(c) ==
    CASE c = DQ -> DQ
      [] c = BS -> BS
      [] c = "/" -> "/"
      [] c = "n" -> NL
      [] c = "t" -> "\t"
      [] OTHER -> ""

\* s[p] follows an odd run of backslashes that starts at or after s[from]:
\* it is the second character of an escape
Escaped(s, from, p) ==
    LET stops == {q \in (from - 1)..(p - 1) : q = from - 1 \/ s[q] # BS}
        stop == CHOOSE q \in stops : \A o \in stops : o <= q
    IN  (p - 1 - stop) % 2 = 1

\* the characters s[from..to] of a string literal, decoded
Unescaped(s, from, to) ==
    LET at == [k \in 1..(to - from + 1) |-> from + k - 1]
        kept == SelectSeq(at, LAMBDA p : Escaped(s, from, p) \/ s[p] # BS)
    IN  [k \in 1..Len(kept) |->
            IF Escaped(s, from, kept[k]) THEN Unescape(s[kept[k]]) ELSE s[kept[k]]]

\* s[from..to] holds no raw control character and no unknown escape
WellFormed(s, from, to) ==
    \A p \in from..to :
        IF Escaped(s, from, p) THEN Unescape(s[p]) # ""
        ELSE s[p] \notin {NL, "\t", "\r"}

StringUpTo(s, i, close) ==
    IF WellFormed(s, i, close - 1)
    THEN Scanned(Unescaped(s, i, close - 1), close + 1)
    ELSE ScanError

\* s[i] is the first character after the opening quote
ScanString(s, i) ==
    LET quotes == {p \in i..Len(s) : s[p] = DQ /\ ~Escaped(s, i, p)}
    IN  IF quotes = {} THEN ScanError
        ELSE StringUpTo(s, i, CHOOSE p \in quotes : \A o \in quotes : p <= o)

RECURSIVE ScanDigits(_, _)
ScanDigits(s, i) ==
    IF i <= Len(s) /\ s[i] \in DigitSet THEN ScanDigits(s, i + 1) ELSE i

\* (0|[1-9][0-9]*)
ScanNumber(s, i) ==
    LET j == IF s[i] = "0" THEN i + 1 ELSE ScanDigits(s, i)
    IN  Scanned(PyInt(SubSeq(s, i, j - 1)), j)

RECURSIVE ScanValue(_, _)
RECURSIVE ScanArray(_, _, _)
RECURSIVE ScanObject(_, _, _)

StringValue(r) == IF r.ok THEN Scanned(PyStr(r.val), r.pos) ELSE ScanError

\* s[j] is the first character after "{" and whitespace
ObjectFrom(s, j) ==
    IF j <= Len(s) /\ s[j] = "}" THEN Scanned(PyDict(<<>>), j + 1)
    ELSE ScanObject(s, j, <<>>)

\* s[j] is the first character after "[" and whitespace
ArrayFrom(s, j) ==
    IF j <= Len(s) /\ s[j] = "]" THEN Scanned(PyList(<<>>), j + 1)
    ELSE ScanArray(s, j, <<>>)

ScanValue(s, i) ==
    IF i > Len(s) THEN ScanError
    ELSE IF s[i] = DQ THEN StringValue(ScanString(s, i + 1))
    ELSE IF s[i] = "{" THEN ObjectFrom(s, SkipWs(s, i + 1))
    ELSE IF s[i] = "[" THEN ArrayFrom(s, SkipWs(s, i + 1))
    ELSE IF StartsWithAt(s, i, <<"n", "u", "l", "l">>) THEN Scanned(PyNone, i + 4)
    ELSE IF StartsWithAt(s, i, <<"t", "r", "u", "e">>) THEN Scanned(PyBool(TRUE), i + 4)
    ELSE IF StartsWithAt(s, i, <<"f", "a", "l", "s", "e">>) THEN Scanned(PyBool(FALSE), i + 5)
    ELSE IF s[i] \in DigitSet THEN ScanNumber(s, i)
    ELSE ScanError

\* after an element and whitespace: "]" ends the array, "," starts the next element
ArrayAfterElement(s, j, acc) ==
    IF j > Len(s) THEN ScanError
    ELSE IF s[j] = "]" THEN Scanned(PyList(acc), j + 1)
    ELSE IF s[j] = "," THEN ScanArray(s, SkipWs(s, j + 1), acc)
    ELSE ScanError

ArrayElement(s, e, acc) ==
    IF e.ok THEN ArrayAfterElement(s, SkipWs(s, e.pos), Append(acc, e.val))
    ELSE ScanError

\* s[i] starts an element; acc holds the elements before it
ScanArray(s, i, acc) == ArrayElement(s, ScanValue(s, i), acc)

\* after a member and whitespace: "}" ends the object, "," starts the next member
ObjectAfterMember(s, j, acc) ==
    IF j > Len(s) THEN ScanError
    ELSE IF s[j] = "}" THEN Scanned(PyDict(acc), j + 1)
    ELSE IF s[j] = "," THEN ScanObject(s, SkipWs(s, j + 1), acc)
    ELSE ScanError

ObjectMember(s, key, e, acc) ==
    IF e.ok THEN ObjectAfterMember(s, SkipWs(s, e.pos), DictSet(acc, key, e.val))
    ELSE ScanError

\* s[c] is the first character after the key and whitespace
ObjectAfterKey(s, key, c, acc) ==
    IF c > Len(s) \/ s[c] # ":" THEN ScanError
    ELSE ObjectMember(s, key, ScanValue(s, SkipWs(s, c + 1)), acc)

ObjectKey(s, key, acc) ==
    IF key.ok THEN ObjectAfterKey(s, key.val, SkipWs(s, key.pos), acc)
    ELSE ScanError

\* s[i] starts a member (its key's opening quote); acc holds the pairs before it
ScanObject(s, i, acc) ==
    IF i > Len(s) \/ s[i] # DQ THEN ScanError
    ELSE ObjectKey(s, ScanString(s, i + 1), acc)

JSONDecodeError == Raise("JSONDecodeError", <<"Expecting value">>)

\* the decoder on a str: one value between optional whitespace, nothing after it
WholeText(s, r) ==
    IF r.ok /\ SkipWs(s, r.pos) > Len(s) THEN Ok(r.val) ELSE JSONDecodeError

JsonDecode(s) == WholeText(s, ScanValue(s, SkipWs(s, 1)))

\* json.loads(x): x must be a str
JsonLoads(x) ==
    IF x.t = "str" THEN JsonDecode(x.v)
    ELSE Raise("TypeError",
               <<"the JSON object must be str, bytes or bytearray, not ", x.t>>)

\* ------------------------------------------------------------------------
\* str() and repr() of decoded values
\* ------------------------------------------------------------------------

ReprChar(c, quote) ==
    IF c = BS THEN <<BS, BS>>
    ELSE IF c = NL THEN <<BS, "n">>
    ELSE IF c = "\t" THEN <<BS, "t">>
    ELSE IF c = "\r" THEN <<BS, "r">>
    ELSE IF c = quote THEN <<BS, c>>
    ELSE <<c>>

RECURSIVE ReprChars(_, _)
ReprChars(s, quote) ==
    IF s = <<>> THEN <<>>
    ELSE IF Len(s) = 1 THEN ReprChar(s[1], quote)
    ELSE ReprChars(SubSeq(s, 1, Len(s) \div 2), quote)
         \o ReprChars(SubSeq(s, Len(s) \div 2 + 1, Len(s)), quote)

\* repr of a str: single quotes, unless it holds a single quote and no double quote
ReprStr(s) ==
    LET hasSQ == \E i \in 1..Len(s) : s[i] = SQ
        hasDQ == \E i \in 1..Len(s) : s[i] = DQ
        quote == IF hasSQ /\ ~hasDQ THEN DQ ELSE SQ
    IN  <<quote>> \o ReprChars(s, quote) \o <<quote>>

RECURSIVE Repr(_)
RECURSIVE ReprItems(_)
RECURSIVE ReprPairs(_)

Repr(x) ==
    CASE x.t = "str" -> ReprStr(x.v)
      [] x.t = "int" -> x.v
      [] x.t = "bool" -> x.v
      [] x.t = "NoneType" -> <<"N", "o", "n", "e">>
      [] x.t = "list" -> <<"[">> \o ReprItems(x.v) \o <<"]">>
      [] x.t = "dict" -> <<"{">> \o ReprPairs(x.v) \o <<"}">>

ReprItems(items) ==
    IF items = <<>> THEN <<>>
    ELSE Repr(items[1])
         \o (IF Len(items) = 1 THEN <<>> ELSE <<",", SP>> \o ReprItems(Tail(items)))

ReprPairs(pairs) ==
    IF pairs = <<>> THEN <<>>
    ELSE ReprStr(pairs[1].k) \o <<":", SP>> \o Repr(pairs[1].v)
         \o (IF Len(pairs) = 1 THEN <<>> ELSE <<",", SP>> \o ReprPairs(Tail(pairs)))

\* str(x)
Str(x) == IF x.t = "str" THEN x.v ELSE Repr(x)

\* bool(x)
Truthy(x) ==
    CASE x.t = "NoneType" -> FALSE
      [] x.t = "bool" -> x.v = <<"True">>
      [] x.t = "int" -> x.v # <<"0">>
      [] OTHER -> x.v # <<>>

RECURSIVE IntToStr(_)
\* f"{n}" of a non-negative int
IntToStr(n) ==
    IF n < 10 THEN <<DigitChars[n + 1]>>
    ELSE IntToStr(n \div 10) \o <<DigitChars[(n % 10) + 1]>>

\* ------------------------------------------------------------------------
\* Python operators used on the decoded reply
\* ------------------------------------------------------------------------

Sized(x) == x.t \in {"str", "list", "dict"}

\* key in x, for a str key
PyIn(key, x) ==
    CASE x.t = "dict" -> Ok(HasKey(x.v, key))
      [] x.t = "list" -> Ok(\E i \in 1..Len(x.v) : x.v[i] = PyStr(key))
      [] x.t = "str" -> Ok(IsSubstring(key, x.v))
      [] OTHER -> Raise("TypeError", <<"argument of type '", x.t, "' is not iterable">>)

\* x[key], for a str key
PyGetKey(x, key) ==
    CASE x.t = "dict" ->
            IF HasKey(x.v, key) THEN Ok(Lookup(x.v, key))
            ELSE Raise("KeyError", ReprStr(key))
      [] x.t = "list" ->
            Raise("TypeError", <<"list indices must be integers or slices, not str">>)
      [] x.t = "str" ->
            Raise("TypeError", <<"string indices must be integers, not 'str'">>)
      [] OTHER -> Raise("TypeError", <<"'", x.t, "' object is not subscriptable">>)

\* x[0]
PyGetFirst(x) ==
    CASE x.t = "list" ->
            IF x.v # <<>> THEN Ok(x.v[1])
            ELSE Raise("IndexError", <<"list index out of range">>)
      [] x.t = "str" ->
            IF x.v # <<>> THEN Ok(PyStr(<<x.v[1]>>))
            ELSE Raise("IndexError", <<"string index out of range">>)
      [] x.t = "dict" -> Raise("KeyError", <<"0">>)
      [] OTHER -> Raise("TypeError", <<"'", x.t, "' object is not subscriptable">>)

\* len(x)
PyLen(x) ==
    IF Sized(x) THEN Ok(Len(x.v))
    ELSE Raise("TypeError", <<"object of type '", x.t, "' has no len()">>)

\* d.get(key, default), for a dict d
DictGet(pairs, key, default) ==
    IF HasKey(pairs, key) THEN Lookup(pairs, key) ELSE default

\* s.strip()
Strip(s) ==
    LET keep == {i \in 1..Len(s) : s[i] \notin Whitespace}
    IN  IF keep = {} THEN <<>>
        ELSE SubSeq(s, CHOOSE i \in keep : \A j \in keep : i <= j,
                       CHOOSE i \in keep : \A j \in keep : j <= i)

RECURSIVE SplitFrom(_, _, _)
\* the pieces of s from index i on, cut at every sep
SplitFrom(s, sep, i) ==
    LET cuts == {j \in i..Len(s) : s[j] = sep}
    IN  IF cuts = {} THEN <<SubSeq(s, i, Len(s))>>
        ELSE LET c == CHOOSE j \in cuts : \A k \in cuts : j <= k
             IN  <<SubSeq(s, i, c - 1)>> \o SplitFrom(s, sep, c + 1)

\* s.split(sep): never an empty list
Split(s, sep) == SplitFrom(s, sep, 1)

\* ------------------------------------------------------------------------
\* call_databricks_llm, lines 166-202: the response normaliser
\* ------------------------------------------------------------------------

\* a then f(a.val): the rest of an expression runs unless a part of it raised
Then(a, f(_)) == IF a.ok THEN f(a.val) ELSE a

Positive(n) == Ok(n > 0)

LenPositive(x) == Then(PyLen(x), Positive)

\* `key in result and len(result[key]) > 0`
ShapeTest(result, key) ==
    Then(PyIn(key, result),
         LAMBDA present : IF present THEN Then(PyGetKey(result, key), LenPositive)
                          ELSE Ok(FALSE))

GetMessage(x) == PyGetKey(x, KeyMessage)

GetContent(x) == PyGetKey(x, KeyContent)

\* result["choices"][0]["message"]["content"]
MessageContent(result) ==
    Then(Then(Then(PyGetKey(result, KeyChoices), PyGetFirst), GetMessage), GetContent)

IsTextItem(item) ==
    /\ item.t = "dict"
    /\ DictGet(item.v, KeyType, PyNone) = PyStr(KeyText)

\* the for loop of lines 175-179: text_content after the loop
TextContent(items) ==
    LET hits == {i \in 1..Len(items) : IsTextItem(items[i])}
    IN  IF hits = {} THEN PyNone
        ELSE LET i == CHOOSE h \in hits : \A g \in hits : h <= g
             IN  DictGet(items[i].v, KeyText, PyStr(<<>>))

TextOrWhole(text_content, message_content) ==
    IF Truthy(text_content) THEN text_content ELSE PyStr(Str(message_content))

\* lines 173-182: the content taken from message_content
ContentOfMessage(message_content) ==
    IF message_content.t = "list"
    THEN TextOrWhole(TextContent(message_content.v), message_content)
    ELSE message_content

OkContentOfMessage(message_content) == Ok(ContentOfMessage(message_content))

\* lines 184-187: the branches after the chat-choices test failed
ExtractOther(result) ==
    Then(ShapeTest(result, KeyPredictions),
         LAMBDA isPredictions :
            IF isPredictions THEN Then(PyGetKey(result, KeyPredictions), PyGetFirst)
            ELSE Ok(PyStr(Str(result))))

\* lines 169-187: the content extracted from the decoded reply
ExtractContent(result) ==
    Then(ShapeTest(result, KeyChoices),
         LAMBDA isChoices :
            IF isChoices THEN Then(MessageContent(result), OkContentOfMessage)
            ELSE ExtractOther(result))

\* line 196
FallbackSubject(lines, request_data) ==
    IF lines # <<>> THEN lines[1] ELSE <<"Re: ">> \o request_data.category

\* line 197
FallbackBody(lines, content) ==
    IF Len(lines) > 1 THEN Join(Tail(lines), <<NL>>) ELSE content

\* line 201
WrapBody(body, request_data) ==
    <<"Dear ">> \o request_data.recipient_name \o <<",\n\n">> \o body
        \o <<"\n\nBest regards,\n">> \o request_data.sender_name

FallbackOfLines(lines, content, request_data) ==
    PyDict(<<Pair(KeySubject, PyStr(FallbackSubject(lines, request_data))),
             Pair(KeyBody, PyStr(WrapBody(FallbackBody(lines, content), request_data)))>>)

\* lines 194-202: the mapping built from text that is not JSON
Fallback(content, request_data) ==
    FallbackOfLines(Split(Strip(content), NL), content, request_data)

ParsedOrFallback(parsed, content, request_data) ==
    IF parsed.ok THEN parsed
    ELSE IF parsed.exc.cls = "JSONDecodeError"
    THEN Ok(Fallback(content.v, request_data))
    ELSE parsed

\* variant: a str content is never tried as JSON
ParseContentAsText(content, request_data) ==
    IF content.t = "str" THEN Ok(Fallback(content.v, request_data))
    ELSE JsonLoads(content)

\* lines 189-202: json.loads(content), with the except json.JSONDecodeError clause
ParseContent(content, request_data) ==
    ParsedOrFallback(JsonLoads(content), content, request_data)

\* lines 166-202 after response.json(): what the normaliser returns or raises
Normalize(result, request_data) ==
    Then(ExtractContent(result), LAMBDA content : ParseContent(content, request_data))

\* ------------------------------------------------------------------------
\* Exceptions
\* ------------------------------------------------------------------------

\* raise HTTPException(status_code=..., detail=...)
HTTPException(status_code, detail) ==
    [ok |-> FALSE,
     exc |-> [cls |-> "HTTPException", msg |-> detail, status_code |-> status_code]]

\* the base class of each exception class that occurs (httpx, json, builtins,
\* pydantic, fastapi)
BaseOf(cls) ==
    CASE cls = "ConnectTimeout" -> "TimeoutException"
      [] cls = "ReadTimeout" -> "TimeoutException"
      [] cls = "TimeoutException" -> "TransportError"
      [] cls = "ConnectError" -> "TransportError"
      [] cls = "TransportError" -> "RequestError"
      [] cls = "RequestError" -> "Exception"
      [] cls = "JSONDecodeError" -> "ValueError"
      [] cls = "ValidationError" -> "ValueError"
      [] cls = "KeyError" -> "LookupError"
      [] cls = "IndexError" -> "LookupError"
      [] OTHER -> "Exception"

RECURSIVE IsInstance(_, _)
\* isinstance(e, base), e of class cls
IsInstance(cls, base) ==
    \/ cls = base
    \/ cls # "Exception" /\ IsInstance(BaseOf(cls), base)

\* str(e).  HTTPException.__str__ is "<status_code>: <detail>" from Starlette
\* 0.29 on; before that the class defines no __str__ and, built from keyword
\* arguments, has empty args, so that str(e) is "".  app.py pins no version:
\* config.http_exception_str says which one the process runs.
StrOfException(exc, config) ==
    IF exc.cls = "HTTPException"
    THEN IF config.http_exception_str
         THEN IntToStr(exc.status_code) \o <<": ">> \o exc.msg
         ELSE <<>>
    ELSE exc.msg

\* ------------------------------------------------------------------------
\* call_databricks_llm, lines 149-210: from the await of client.post on
\* ------------------------------------------------------------------------

\* lines 150-202, the body of the try statement; outcome is what the await of
\* client.post produced: a reply (status_code, text) or an httpx exception
TryBody(outcome, request_data) ==
    IF outcome.kind = "raise" THEN Raise(outcome.cls, outcome.text)
    ELSE IF outcome.status_code # 200
    THEN HTTPException(500, <<"Databricks API error: ">> \o IntToStr(outcome.status_code)
                                \o <<" - ">> \o outcome.text)
    ELSE Then(JsonDecode(outcome.text),
              LAMBDA result : Normalize(result, request_data))

\* variant: the RequestError clause placed before the TimeoutException clause
ExceptClausesGenericFirst(exc, config) ==
    IF IsInstance(exc.cls, "RequestError")
    THEN HTTPException(500, <<"Request error: ">> \o StrOfException(exc, config))
    ELSE IF IsInstance(exc.cls, "TimeoutException")
    THEN HTTPException(504, <<"Request timeout to Databricks API">>)
    ELSE HTTPException(500, <<"Unexpected error: ">> \o StrOfException(exc, config))

\* lines 204-210, the except clauses in their order
ExceptClauses(exc, config) ==
    IF IsInstance(exc.cls, "TimeoutException")
    THEN HTTPException(504, <<"Request timeout to Databricks API">>)
    ELSE IF IsInstance(exc.cls, "RequestError")
    THEN HTTPException(500, <<"Request error: ">> \o StrOfException(exc, config))
    ELSE HTTPException(500, <<"Unexpected error: ">> \o StrOfException(exc, config))

\* lines 149-210: what call_databricks_llm returns or raises once the await ends
Caught(r, config) == IF r.ok THEN r ELSE ExceptClauses(r.exc, config)

CallResult(outcome, request_data, config) ==
    Caught(TryBody(outcome, request_data), config)

\* variant: `DATABRICKS_API_TOKEN is None` in place of the truth test
TokenMissingNoneOnly(config) == config.token = PyNone

\* line 99: not DATABRICKS_API_TOKEN
TokenMissing(config) == ~Truthy(config.token)

\* lines 99-103
TokenNotConfigured == HTTPException(500, <<"Databricks API token not configured">>)

\* ------------------------------------------------------------------------
\* generate_excuse, lines 215-237
\* ------------------------------------------------------------------------

NoResponse ==
    [kind |-> "none", status_code |-> 0, detail |-> <<>>, subject |-> <<>>,
     body |-> <<>>, success |-> FALSE, error |-> PyNone]

\* the HTTP error response FastAPI makes of an HTTPException that leaves the handler
HttpError(status_code, detail) ==
    [kind |-> "http_error", status_code |-> status_code, detail |-> detail,
     subject |-> <<>>, body |-> <<>>, success |-> FALSE, error |-> PyNone]

\* the 200 response carrying an ExcuseResponse
Envelope(subject, body, success, error) ==
    [kind |-> "envelope", status_code |-> 200, detail |-> <<>>,
     subject |-> subject, body |-> body, success |-> success, error |-> error]

\* pydantic's validation of a str field (ExcuseResponse.subject, .body): a str
\* passes; pydantic 1 turns an int (and a bool) into its str(), pydantic 2
\* rejects it; anything else is rejected.  config.coerce_numbers says which.
ValidateStr(x, config) ==
    IF x.t = "str" THEN Ok(x.v)
    ELSE IF x.t \in {"int", "bool"} /\ config.coerce_numbers THEN Ok(Str(x))
    ELSE Raise("ValidationError", <<"1 validation error for ExcuseResponse">>)

Validated(subject, body) ==
    IF ~subject.ok THEN subject
    ELSE IF ~body.ok THEN body
    ELSE Ok(Envelope(subject.val, body.val, TRUE, PyNone))

\* lines 221-226: the envelope built from the value call_databricks_llm returned
BuildResponse(result, request, config) ==
    IF result.t # "dict"
    THEN Raise("AttributeError", <<"'", result.t, "' object has no attribute 'get'">>)
    ELSE Validated(
            ValidateStr(DictGet(result.v, KeySubject,
                                PyStr(<<"Re: ">> \o request.category)), config),
            ValidateStr(DictGet(result.v, KeyBody,
                                PyStr(<<"Email content could not be generated.">>)),
                        config))

\* variant: no `except Exception` clause, every exception leaves the handler
HandlerExceptPropagateAll(exc, config) ==
    HttpError(IF exc.cls = "HTTPException" THEN exc.status_code ELSE 500,
              IF exc.cls = "HTTPException" THEN exc.msg ELSE <<"Internal Server Error">>)

\* lines 228-237: the except clauses of generate_excuse
HandlerExcept(exc, config) ==
    IF IsInstance(exc.cls, "HTTPException") THEN HttpError(exc.status_code, exc.msg)
    ELSE Envelope(<<"Error">>,
                  <<"Sorry, there was an error generating your email. Please try again.">>,
                  FALSE, PyStr(StrOfException(exc, config)))

\* lines 215-237, given what call_databricks_llm returned or raised
Handled(r, config) == IF r.ok THEN r.val ELSE HandlerExcept(r.exc, config)

HandlerResponse(called, request, config) ==
    Handled(Then(called, LAMBDA result : BuildResponse(result, request, config)), config)

\* ------------------------------------------------------------------------
\* The environment: the inference endpoint's replies and the clients' requests
\* ------------------------------------------------------------------------

EscapeChar(c) ==
    IF c = DQ THEN <<BS, DQ>>
    ELSE IF c = BS THEN <<BS, BS>>
    ELSE IF c = NL THEN <<BS, "n">>
    ELSE <<c>>

RECURSIVE EscapeChars(_)
EscapeChars(s) ==
    IF s = <<>> THEN <<>>
    ELSE IF Len(s) = 1 THEN EscapeChar(s[1])
    ELSE EscapeChars(SubSeq(s, 1, Len(s) \div 2))
         \o EscapeChars(SubSeq(s, Len(s) \div 2 + 1, Len(s)))

RECURSIVE Dumps(_)
RECURSIVE DumpItems(_)
RECURSIVE DumpPairs(_)

\* the JSON text a sender writes for a value (compact separators)
Dumps(x) ==
    CASE x.t = "str" -> <<DQ>> \o EscapeChars(x.v) \o <<DQ>>
      [] x.t = "int" -> x.v
      [] x.t = "bool" -> IF x.v = <<"True">> THEN <<"t", "r", "u", "e">>
                         ELSE <<"f", "a", "l", "s", "e">>
      [] x.t = "NoneType" -> <<"n", "u", "l", "l">>
      [] x.t = "list" -> <<"[">> \o DumpItems(x.v) \o <<"]">>
      [] x.t = "dict" -> <<"{">> \o DumpPairs(x.v) \o <<"}">>

DumpItems(items) ==
    IF items = <<>> THEN <<>>
    ELSE Dumps(items[1])
         \o (IF Len(items) = 1 THEN <<>> ELSE <<",">> \o DumpItems(Tail(items)))

DumpPairs(pairs) ==
    IF pairs = <<>> THEN <<>>
    ELSE <<DQ>> \o EscapeChars(pairs[1].k) \o <<DQ, ":">> \o Dumps(pairs[1].v)
         \o (IF Len(pairs) = 1 THEN <<>> ELSE <<",">> \o DumpPairs(Tail(pairs)))

\* short texts a model may write
TextHi == <<"H", "i">>
TextYo == <<"Y", "o">>
TextLines == <<"H", "i", NL, "a", NL, "b">>
TextPadded == <<SP, "H", "i", NL, "a", NL>>
TextBlank == <<SP, NL>>

\* the two-field object the prompt asks for
TwoFields(subject, body) ==
    PyDict(<<Pair(KeySubject, subject), Pair(KeyBody, body)>>)

\* message contents that are str
StrContents ==
    << PyStr(Dumps(TwoFields(PyStr(TextHi), PyStr(TextYo)))),
       PyStr(<<SP>> \o Dumps(TwoFields(PyStr(TextYo), PyStr(TextLines))) \o <<NL>>),
       PyStr(TextLines),
       PyStr(TextPadded),
       PyStr(TextHi),
       PyStr(<<>>),
       PyStr(TextBlank),
       PyStr(<<"4", "2">>),
       PyStr(Dumps(PyDict(<<Pair(KeySubject, PyStr(TextHi))>>))),
       PyStr(Dumps(TwoFields(PyInt(<<"7">>), PyStr(TextYo)))),
       PyStr(Dumps(TwoFields(PyStr(TextHi), PyNone))) >>

TextItem(text) == PyDict(<<Pair(KeyType, PyStr(KeyText)), Pair(KeyText, text)>>)

ImageItem == PyDict(<<Pair(KeyType, PyStr(<<"i", "m", "g">>))>>)

\* message contents that are not str
OtherContents ==
    << PyList(<<TextItem(PyStr(Dumps(TwoFields(PyStr(TextHi), PyStr(TextYo)))))>>),
       PyList(<<ImageItem, TextItem(PyStr(TextLines)), TextItem(PyStr(TextYo))>>),
       PyList(<<TextItem(PyStr(<<>>))>>),
       PyList(<<TextItem(PyStr(<<>>)), TextItem(PyStr(TextHi))>>),
       PyList(<<PyDict(<<Pair(KeyType, PyStr(KeyText))>>)>>),
       PyList(<<ImageItem>>),
       PyList(<<>>),
       PyNone,
       TwoFields(PyStr(TextHi), PyStr(TextYo)) >>

ChatReply(content) ==
    PyDict(<<Pair(KeyChoices,
                  PyList(<<PyDict(<<Pair(KeyMessage,
                                         PyDict(<<Pair(KeyContent, content)>>))>>)>>))>>)

PredictionsReply(first) == PyDict(<<Pair(KeyPredictions, PyList(<<first>>))>>)

\* decoded reply bodies in neither of the two known shapes, or broken ones
OtherReplies ==
    << PredictionsReply(PyStr(TextLines)),
       PredictionsReply(PyStr(<<>>)),
       PredictionsReply(TwoFields(PyStr(TextHi), PyStr(TextYo))),
       PyDict(<<Pair(KeyChoices, PyList(<<>>)),
                Pair(KeyPredictions, PyList(<<PyStr(Dumps(TwoFields(PyStr(TextHi), PyStr(TextYo))))>>))>>),
       PyDict(<<Pair(KeyChoices, PyList(<<PyDict(<<>>)>>))>>),
       PyDict(<<Pair(KeyChoices, PyInt(<<"1">>))>>),
       PyDict(<<>>),
       PyDict(<<Pair(<<"e", "r", "r">>, PyStr(TextHi))>>),
       PyList(<<PyInt(<<"1">>)>>),
       PyInt(<<"7">>),
       PyStr(KeyChoices),
       PyNone >>

\* what the await of client.post can produce
Reply(status_code, text, decoded) ==
    [kind |-> "reply", status_code |-> status_code, text |-> text, cls |-> "",
     decoded |-> decoded]

Reply200(decoded) == Reply(200, Dumps(decoded), decoded)

Raised(cls, message) ==
    [kind |-> "raise", status_code |-> 0, text |-> message, cls |-> cls,
     decoded |-> PyNone]

Outcomes ==
    [i \in 1..Len(StrContents) |-> Reply200(ChatReply(StrContents[i]))]
    \o [i \in 1..Len(OtherContents) |-> Reply200(ChatReply(OtherContents[i]))]
    \o [i \in 1..Len(OtherReplies) |-> Reply200(OtherReplies[i])]
    \o << Reply(200, <<"o", "o", "p", "s">>, PyNone),
          Reply(500, <<"b", "o", "o", "m">>, PyNone),
          Reply(404, <<"n", "f">>, PyNone),
          Raised("ReadTimeout", <<>>),
          Raised("ConnectTimeout", <<>>),
          Raised("ConnectError", <<"All connection attempts failed">>) >>

OutcomeIds == 1..Len(Outcomes)

\* the fields of ExcuseRequest that reach the response; tone, seriousness and
\* eta_when reach only the prompt
RequestInputs ==
    { [category |-> <<"l", "a", "t", "e">>, recipient_name |-> <<"A", "l">>,
       sender_name |-> <<"B", "o">>],
      [category |-> <<"s", "i", "c", "k">>, recipient_name |-> <<"C", "y">>,
       sender_name |-> <<"D", "i">>] }

NoRequest == [category |-> <<>>, recipient_name |-> <<>>, sender_name |-> <<>>]

\* DATABRICKS_API_TOKEN as os.getenv leaves it: unset, empty, or set
Tokens == {PyNone, PyStr(<<>>), PyStr(<<"t", "o", "k">>)}

Configs ==
    [token : Tokens, http_exception_str : BOOLEAN, coerce_numbers : BOOLEAN]

\* ------------------------------------------------------------------------
\* The server: NumSlots requests can be in flight at once
\* ------------------------------------------------------------------------

NumSlots == 2

Slots == 1..NumSlots

VARIABLES
    environ,    \* the module globals read at import (lines 40-46) and the libraries
    pc,         \* per slot: "idle", "awaiting" (suspended in client.post), "done"
    requests,   \* per slot: the ExcuseRequest being served
    upstream,   \* per slot: which of Outcomes the await produced (0: none yet)
    calls,      \* per slot: outbound POSTs made for the request
    responses   \* per slot: the response to the request

vars == <<environ, pc, requests, upstream, calls, responses>>

\* what call_databricks_llm returns or raises by what the await produced,
\* tabulated once
CallTable ==
    [i \in OutcomeIds, q \in RequestInputs, c \in Configs |->
        CallResult(Outcomes[i], q, c)] @@ <<>>

\* generate_excuse's response by what the await produced, tabulated once
ResponseTable ==
    [i \in OutcomeIds, q \in RequestInputs, c \in Configs |->
        HandlerResponse(CallTable[i, q, c], q, c)] @@ <<>>

\* variant: the request kept in one place shared by the requests in flight
RequestDataShared(r) == requests[CHOOSE q \in Slots : pc[q] # "idle"]

\* the request parameter of the handler serving slot r
RequestData(r) == requests[r]

Init ==
    /\ environ \in Configs
    /\ pc = [r \in Slots |-> "idle"]
    /\ requests = [r \in Slots |-> NoRequest]
    /\ upstream = [r \in Slots |-> 0]
    /\ calls = [r \in Slots |-> 0]
    /\ responses = [r \in Slots |-> NoResponse]

\* generate_excuse from its entry to the await of client.post (lines 215-155),
\* or to its response when the token is missing (lines 99-103, 228-229)
Receive(r) ==
    /\ pc[r] = "idle"
    /\ \E q \in RequestInputs :
        /\ requests' = [requests EXCEPT ![r] = q]
        /\ IF TokenMissing(environ)
           THEN /\ responses' = [responses EXCEPT
                                   ![r] = HandlerResponse(TokenNotConfigured, q, environ)]
                /\ pc' = [pc EXCEPT ![r] = "done"]
                /\ calls' = calls
           ELSE /\ calls' = [calls EXCEPT ![r] = calls[r] + 1]
                /\ pc' = [pc EXCEPT ![r] = "awaiting"]
                /\ responses' = responses
    /\ UNCHANGED <<environ, upstream>>

\* variant: a failed call is made once more before the request is answered
AfterAwaitRetry(r, i) ==
    /\ pc[r] = "awaiting"
    /\ upstream' = [upstream EXCEPT ![r] = i]
    /\ IF Outcomes[i].kind = "raise" /\ calls[r] < 2
       THEN /\ calls' = [calls EXCEPT ![r] = calls[r] + 1]
            /\ UNCHANGED <<pc, responses>>
       ELSE /\ responses' = [responses EXCEPT ![r] = ResponseTable[i, RequestData(r), environ]]
            /\ pc' = [pc EXCEPT ![r] = "done"]
            /\ calls' = calls
    /\ UNCHANGED <<environ, requests>>

\* generate_excuse from the end of the await to its response (lines 157-237)
AfterAwait(r, i) ==
    /\ pc[r] = "awaiting"
    /\ upstream' = [upstream EXCEPT ![r] = i]
    /\ responses' = [responses EXCEPT ![r] = ResponseTable[i, RequestData(r), environ]]
    /\ pc' = [pc EXCEPT ![r] = "done"]
    /\ UNCHANGED <<environ, requests, calls>>

\* the endpoint replies
ReplyArrives(r) ==
    \E i \in OutcomeIds : Outcomes[i].kind = "reply" /\ AfterAwait(r, i)

\* the 30 s timeout of the client expires
CallTimesOut(r) ==
    \E i \in OutcomeIds :
        /\ Outcomes[i].kind = "raise"
        /\ IsInstance(Outcomes[i].cls, "TimeoutException")
        /\ AfterAwait(r, i)

\* the transport fails otherwise
TransportFails(r) ==
    \E i \in OutcomeIds :
        /\ Outcomes[i].kind = "raise"
        /\ ~IsInstance(Outcomes[i].cls, "TimeoutException")
        /\ AfterAwait(r, i)

\* the response is sent; nothing of the request is kept
Respond(r) ==
    /\ pc[r] = "done"
    /\ pc' = [pc EXCEPT ![r] = "idle"]
    /\ requests' = [requests EXCEPT ![r] = NoRequest]
    /\ upstream' = [upstream EXCEPT ![r] = 0]
    /\ calls' = [calls EXCEPT ![r] = 0]
    /\ responses' = [responses EXCEPT ![r] = NoResponse]
    /\ UNCHANGED environ

Next ==
    \E r \in Slots :
        \/ Receive(r)
        \/ ReplyArrives(r)
        \/ CallTimesOut(r)
        \/ TransportFails(r)
        \/ Respond(r)

Spec == Init /\ [][Next]_vars

\* ------------------------------------------------------------------------
\* The claims
\* ------------------------------------------------------------------------

\* the request in slot r has its response
Done(r) == pc[r] = "done"

\* the request in slot r has its response and made the outbound call
Awaited(r) == pc[r] = "done" /\ upstream[r] # 0

\* what the await of the request in slot r produced
Produced(r) == Outcomes[upstream[r]]

\* the endpoint replied 200 to the request in slot r and the reply carried the
\* decoded body `decoded`
Replied200(r, decoded) ==
    /\ Awaited(r)
    /\ Produced(r).kind = "reply"
    /\ Produced(r).status_code = 200
    /\ Produced(r).decoded = decoded

\* C1: with DATABRICKS_API_TOKEN unset or empty, no request makes an outbound
\* call, and every request ends with status 500 and the detail "Databricks API
\* token not configured".
NoTokenNoCall ==
    \A r \in Slots :
        environ.token \in {PyNone, PyStr(<<>>)}
            => /\ calls[r] = 0
               /\ pc[r] # "awaiting"
               /\ Done(r) => responses[r]
                                = HttpError(500, <<"Databricks API token not configured">>)

\* a request answered while the token is set but empty
NoTokenAnswered ==
    \E r \in Slots :
        /\ Done(r)
        /\ environ.token = PyStr(<<>>)
        /\ responses[r].status_code = 500
        /\ calls[r] = 0

\* C2: a request whose outbound call timed out is answered with status 504,
\* never with 500 and never with a 200 envelope.
TimeoutIs504 ==
    \A r \in Slots :
        (/\ Awaited(r)
         /\ Produced(r).kind = "raise"
         /\ Produced(r).cls \in {"ReadTimeout", "ConnectTimeout"})
            => /\ responses[r].kind = "http_error"
               /\ responses[r].status_code = 504

\* a request whose outbound call ran into the read timeout, answered
TimeoutAnswered ==
    \E r \in Slots :
        /\ Awaited(r)
        /\ Produced(r).cls = "ReadTimeout"
        /\ responses[r].status_code = 504

\* C3: a request whose outbound call was replied to with a status other than
\* 200 is answered with status 500 and a detail that contains the upstream
\* status code and the upstream body text.
UpstreamErrorReported ==
    \A r \in Slots :
        (/\ Awaited(r)
         /\ Produced(r).kind = "reply"
         /\ Produced(r).status_code # 200)
            => /\ responses[r].kind = "http_error"
               /\ responses[r].status_code = 500
               /\ IsSubstring(IntToStr(Produced(r).status_code), responses[r].detail)
               /\ IsSubstring(Produced(r).text, responses[r].detail)

\* texts a reply can carry as subject or body
SampleTexts == {TextHi, TextYo, TextLines}

\* str contents that are the JSON text of an object with the two str fields
\* subject and body, bare or with white space around it
TwoFieldContents ==
    UNION {
        { [content |-> PyStr(Dumps(TwoFields(PyStr(s), PyStr(b)))),
           subject |-> s, body |-> b],
          [content |-> PyStr(<<SP>> \o Dumps(TwoFields(PyStr(s), PyStr(b))) \o <<NL>>),
           subject |-> s, body |-> b] } : s \in SampleTexts, b \in SampleTexts }

\* C4: when the endpoint replies 200 in the chat-choices shape with content
\* that is the JSON text of an object with the two str fields subject and body,
\* the response is the envelope with success true, no error, and exactly that
\* subject and that body.
TwoFieldReplyReturned ==
    \A r \in Slots : \A t \in TwoFieldContents :
        Replied200(r, ChatReply(t.content))
            => responses[r] = Envelope(t.subject, t.body, TRUE, PyNone)

\* a two-field reply with white space around it and a body of several lines,
\* answered
TwoFieldReplyAnswered ==
    \E r \in Slots : \E t \in TwoFieldContents :
        /\ Replied200(r, ChatReply(t.content))
        /\ t.body = TextLines
        /\ t.content.v[1] = SP
        /\ responses[r].success

\* str contents that are not JSON
PlainTexts == {TextLines, TextPadded, TextHi, <<>>, TextBlank}

\* the subject C5 states for plain text
ClaimedSubject(text, request) ==
    IF text = <<>> THEN <<"Re: ">> \o request.category
    ELSE Split(Strip(text), NL)[1]

\* the body C5 states for plain text: the lines after the first, wrapped
ClaimedBody(text, request) ==
    WrapBody(Join(Tail(Split(Strip(text), NL)), <<NL>>), request)

\* C5: when the content of a 200 chat-choices reply is plain text that is not
\* JSON, the subject of the response is the first line of the content, or
\* "Re: <category>" if the content is empty, and the body is the lines after the
\* first wrapped in "Dear <recipient>," and "Best regards, <sender>".
PlainTextFallback ==
    \A r \in Slots : \A text \in PlainTexts :
        Replied200(r, ChatReply(PyStr(text)))
            => /\ responses[r].kind = "envelope"
               /\ responses[r].success
               /\ responses[r].subject = ClaimedSubject(text, requests[r])
               /\ Len(Split(Strip(text), NL)) > 1
                    => responses[r].body = ClaimedBody(text, requests[r])

\* a mapping with both a subject key and a body key, returned
IsSubjectBodyMapping(n) ==
    /\ n.ok
    /\ n.val.t = "dict"
    /\ HasKey(n.val.v, KeySubject)
    /\ HasKey(n.val.v, KeyBody)

\* C6: for every 200 reply whose body decodes, the normalisation step of
\* call_databricks_llm raises nothing and returns a mapping that has both a
\* subject key and a body key.
NormalizationTotal ==
    \A r \in Slots :
        (/\ Awaited(r)
         /\ Produced(r).kind = "reply"
         /\ Produced(r).status_code = 200
         /\ JsonDecode(Produced(r).text).ok)
            => IsSubjectBodyMapping(
                   Normalize(JsonDecode(Produced(r).text).val, requests[r]))

\* what call_databricks_llm returned or raised for the request in slot r
Called(r) == CallTable[upstream[r], requests[r], environ]

\* generate_excuse raised after call_databricks_llm had returned
RaisedAfterCall(r) ==
    /\ Awaited(r)
    /\ Called(r).ok
    /\ ~BuildResponse(Called(r).val, requests[r], environ).ok

\* C7: when generate_excuse raises after the inference call has returned, the
\* response is a 200 envelope with success false and a non-empty error.
LateExceptionSwallowed ==
    \A r \in Slots :
        RaisedAfterCall(r)
            => /\ responses[r].kind = "envelope"
               /\ responses[r].status_code = 200
               /\ ~responses[r].success
               /\ responses[r].error.t = "str"
               /\ responses[r].error.v # <<>>

\* a request whose call returned a value that is no mapping, answered
LateExceptionAnswered ==
    \E r \in Slots :
        /\ RaisedAfterCall(r)
        /\ Called(r).val.t # "dict"
        /\ responses[r].status_code = 200

\* C8: no request makes more than one outbound call; the end of the await,
\* failure or not, gives the request its response without another call; and a
\* request that has its response makes no call and keeps that response.
NoRetries ==
    /\ [](\A r \in Slots : calls[r] <= 1)
    /\ [][\A r \in Slots :
            /\ (pc[r] = "awaiting" /\ upstream'[r] # 0)
                    => (pc'[r] = "done" /\ calls'[r] = calls[r])
            /\ pc[r] = "done"
                    => /\ calls'[r] <= calls[r]
                       /\ pc'[r] = "done" => responses'[r] = responses[r]
       ]_vars

\* a request whose one outbound call failed in the transport, answered
FailedOnceAnswered ==
    \E r \in Slots :
        /\ Awaited(r)
        /\ Produced(r).cls = "ConnectError"
        /\ calls[r] = 1
        /\ responses[r].status_code = 500

\* C9: the response of a request is a function of its own fields, its own
\* upstream outcome and the configuration, whatever the other requests in
\* flight do; a step of one request leaves every other request as it is; and
\* no step changes the configuration.
RequestsIndependent ==
    /\ [](\A r \in Slots :
            Done(r) => responses[r]
                        = IF upstream[r] = 0
                          THEN HandlerResponse(TokenNotConfigured, requests[r], environ)
                          ELSE ResponseTable[upstream[r], requests[r], environ])
    /\ [][/\ environ' = environ
          /\ \A r, o \in Slots :
                (r # o /\ pc'[r] # pc[r])
                    => /\ pc'[o] = pc[o]
                       /\ requests'[o] = requests[o]
                       /\ upstream'[o] = upstream[o]
                       /\ calls'[o] = calls[o]
                       /\ responses'[o] = responses[o]
       ]_vars

\* two requests in flight together, of different fields and different upstream
\* outcomes, both answered from plain text
TwoAnsweredTogether ==
    /\ Replied200(1, ChatReply(PyStr(TextLines)))
    /\ Replied200(2, ChatReply(PyStr(TextPadded)))
    /\ requests[1] # requests[2]
    /\ responses[1] # responses[2]

\* message contents C10 speaks of: a list with an item tagged "text", or no list
ClaimedContents ==
    {StrContents[i] : i \in 1..Len(StrContents)}
    \cup {m \in {OtherContents[i] : i \in 1..Len(OtherContents)} :
            m.t = "list" => \E i \in 1..Len(m.v) : IsTextItem(m.v[i])}

\* C10: in the chat-choices shape, the content taken from a list is the text of
\* its first item tagged "text", empty or not, and a content that is no list
\* is taken as it is.
ListContentIsFirstText ==
    \A r \in Slots : \A m \in ClaimedContents :
        Replied200(r, ChatReply(m))
            => ExtractContent(ChatReply(m))
                = Ok(IF m.t = "list" THEN TextContent(m.v) ELSE m)

====
